---- MODULE Spec2Model ----
(***************************************************************************)
(* Utdns: the UDP/DNS to TCP/DNS translator of src/src/utdns.c.            *)
(*                                                                         *)
(* The model is the dispatcher loop dispatch_packets() with the            *)
(* transaction table, together with the environment it talks to: the       *)
(* clock, the UDP listener's receive queue, the TCP listener's backlog,    *)
(* the kernel's descriptor table and the upstream name server's side of    *)
(* every TCP connection.                                                   *)
(*                                                                         *)
(* C arrays are 0-based; the sequences below are 1-based, so data[j] of    *)
(* the source is data[j + 1] here.  Slots are numbered 0 .. MAX_TRX - 1    *)
(* as in the source.                                                       *)
(***************************************************************************)
EXTENDS Integers, Sequences, FiniteSets, TLC

(***************************************************************************)
(* Sizes.  The source's values are 512 slots, 10 seconds, 65536 bytes and  *)
(* a 12-byte DNS header; the model keeps the code and shrinks the numbers. *)
(***************************************************************************)
\* number of slots of the transaction table (#define MAX_TRX 512)
MAX_TRX == 2
\* seconds after which a transaction is stale (#define TIMEOUT 10)
TIMEOUT == 1
\* payload capacity of a slot buffer (#define FRAMESIZE 65536)
FRAMESIZE == 4
\* shortest datagram that is forwarded (the literal 12 of line 485)
MIN_DGRAM == 2
\* seconds the clock advances over a whole run
MaxNow == 2
\* datagrams the clients send over a whole run
MaxDgrams == 3
\* datagrams the UDP listener's receive queue holds
MaxQueue == 1
\* connections made to the TCP listener over a whole run
MaxTcpIn == 1
\* faults of the network over a whole run: a refused or reset connection,
\* an early end of stream, a spurious wakeup
MaxFaults == 1
\* short counts over a whole run: a send() that takes only a part, a
\* response that arrives in pieces
MaxPartial == 2
\* highest descriptor number the kernel hands out
MaxFd == 8

\* enum {CONN_STATE_NA, CONN_STATE_SEND, CONN_STATE_RECV}
CONN_STATE_NA == 0
CONN_STATE_SEND == 1
CONN_STATE_RECV == 2

\* the listeners main() opens after stdin, stdout, stderr
udp_sock == 3
tcp_sock == 4

\* the socklen_t recvfrom() and accept() report for an endpoint
SockAddrLen == 28

\* sizeof(trx->data)
DataSize == FRAMESIZE + 2

Slots == 0 .. (MAX_TRX - 1)
UpFds == (tcp_sock + 1) .. MaxFd

\* UDP client endpoints, and the value calloc() leaves in addr
Clients == {"c1", "c2"}
NoAddr == "none"
\* the endpoint of a host that connects to the TCP listener
TcpPeer == "t1"

\* the datagrams clients send: c1 one shorter than MIN_DGRAM and one of
\* exactly MIN_DGRAM bytes, c2 a longer one
Datagrams == { [from |-> "c1", data |-> [j \in 1 .. (MIN_DGRAM - 1) |-> 7]],
               [from |-> "c1", data |-> [j \in 1 .. MIN_DGRAM |-> j]],
               [from |-> "c2",
                data |-> [j \in 1 .. (MIN_DGRAM + 1) |-> j + MIN_DGRAM]] }

\* get_free_trx() returns NULL when no slot is free; slots are indices here
NULL == -1

\* a datagram as it waits on the listener; held records that the
\* dispatcher has found the table full with this datagram waiting
Queued(d) == [from |-> d.from, data |-> d.data, held |-> FALSE]

\* byte streams a name server sends besides echoing: a well-formed frame,
\* a frame followed by a byte its prefix does not announce, and a stream
\* that is longer than the slot's buffer and never matches its prefix
Responses == { <<0, 2, 0, 2>>, <<0, 1, 8, 9>>, <<0, 9, 1, 2, 3, 4, 5, 6>> }

Min(a, b) == IF a < b THEN a ELSE b

(***************************************************************************)
(* Byte-level helpers.                                                     *)
(***************************************************************************)
\* htons(n) stored through a uint16_t pointer: the two bytes in memory order
htons(n) == << ((n % 65536) \div 256), (n % 256) >>

\* ntohs(*((uint16_t*) &data[0])): the value of the first two bytes
ntohs(data) == data[1] * 256 + data[2]

\* copy bytes into data starting at C offset off
Store(data, off, bytes) ==
    [j \in 1 .. Len(data) |->
        IF j > off /\ j <= off + Len(bytes) THEN bytes[j - off] ELSE data[j]]

\* memmove(data, data + len, n)
memmove(data, len, n) ==
    [j \in 1 .. Len(data) |-> IF j <= n THEN data[j + len] ELSE data[j]]

\* RFC 1035 4.2.2, as the name server sees it: a message is prefixed with
\* a two byte length field, high byte first
Frame(payload) == << Len(payload) \div 256, Len(payload) % 256 >> \o payload

\* a byte stream that is exactly one frame
IsFrame(s) == Len(s) >= 2 /\ Len(s) - 2 = s[1] * 256 + s[2]

\* the message of a frame
Payload(s) == SubSeq(s, 3, Len(s))

(***************************************************************************)
(* State.                                                                  *)
(***************************************************************************)
VARIABLES
    trx,        \* the transaction table: slot -> dns_trx_t
    pc,         \* where the dispatcher is in its loop
    i,          \* the scan loop's index
    nfds,       \* select()'s result, counted down while handling
    rset,       \* fd_set rset
    wset,       \* fd_set wset
    now,        \* the clock
    udp_queue,  \* datagrams waiting on the UDP listener: [from, data]
    tcp_in,     \* connections waiting on the TCP listener
    left,       \* what the environment may still do in this run
    open,       \* descriptors above tcp_sock that are open
    conn,       \* the name server's side of each upstream descriptor
    ev          \* what the last step did to the outside world

vars == << trx, pc, i, nfds, rset, wset, now, udp_queue, tcp_in, left,
           open,
           conn, ev >>

\* calloc(MAX_TRX, sizeof(*trx))
NewTrx == [ addr |-> NoAddr, addr_len |-> 0, time |-> 0, dst_sock |-> 0, in_sock |-> 0,
            conn_state |-> CONN_STATE_NA, data_len |-> 0,
            data |-> [j \in 1 .. DataSize |-> 0] ]

\* a descriptor that is no upstream connection
NoConn == [ st |-> "closed", sent |-> <<>>, script |-> <<>>, avail |-> 0,
            nread |-> 0, query |-> <<>>, client |-> NoAddr, slot |-> -1 ]

\* a connection as connect() leaves it: handshake under way, nothing sent;
\* query, client and slot remember the datagram it was opened for
NewConn(q, c, s) == [ NoConn EXCEPT !.st = "syn", !.query = q, !.client = c,
                                    !.slot = s ]

\* The environments a run is checked in.  Each gives the number of
\* datagrams, TCP connects, faults, short counts and clock ticks of a run:
\* the full load with nothing else going on, each kind of event with one
\* datagram less, and everything at once around a single datagram.
Quiet == [ dgrams |-> 0, tcpin |-> 0, faults |-> 0, partial |-> 0, ticks |-> 0 ]
Profiles ==
    { [Quiet EXCEPT !.dgrams = MaxDgrams],
      [Quiet EXCEPT !.dgrams = MaxDgrams - 1, !.partial = MaxPartial],
      [Quiet EXCEPT !.dgrams = MaxDgrams - 1, !.faults = MaxFaults],
      [Quiet EXCEPT !.dgrams = MaxDgrams - 1, !.ticks = MaxNow],
      [Quiet EXCEPT !.dgrams = MaxDgrams - 1, !.tcpin = MaxTcpIn],
      [ dgrams |-> MaxDgrams - 2, tcpin |-> MaxTcpIn, faults |-> MaxFaults,
        partial |-> MaxPartial, ticks |-> MaxNow ] }

\* what a step did: the slot it worked on, the endpoint and the bytes of a
\* datagram read or written, the connection it closed, a byte count, and
\* whether the datagram it read had been held back before
NoEv == [ kind |-> "none", slot |-> -1, to |-> NoAddr, bytes |-> <<>>,
          c |-> NoConn, n |-> 0, held |-> FALSE ]

Init ==
    /\ trx = [s \in Slots |-> NewTrx]
    /\ pc = "build"
    /\ i = MAX_TRX
    /\ nfds = 0
    /\ rset = {}
    /\ wset = {}
    /\ now = 0
    /\ udp_queue = <<>>
    /\ tcp_in = 0
    /\ left \in Profiles
    /\ open = {}
    /\ conn = [fd \in UpFds |-> NoConn]
    /\ ev = NoEv

(***************************************************************************)
(* The code's functions.                                                   *)
(***************************************************************************)
\* get_free_trx() returning the start of the table when no slot is free
get_free_trx_first(tbl) ==
    IF \E s \in Slots : tbl[s].dst_sock <= 0
    THEN CHOOSE s \in Slots :
            /\ tbl[s].dst_sock <= 0
            /\ \A r \in Slots : r < s => tbl[r].dst_sock > 0
    ELSE 0

\* get_free_trx() with a search that starts at the second slot
get_free_trx_from1(tbl) ==
    IF \E s \in Slots : s > 0 /\ tbl[s].dst_sock <= 0
    THEN CHOOSE s \in Slots :
            /\ s > 0
            /\ tbl[s].dst_sock <= 0
            /\ \A r \in Slots : 0 < r /\ r < s => tbl[r].dst_sock > 0
    ELSE NULL

\* get_free_trx(): the first slot with dst_sock <= 0, or NULL
get_free_trx(tbl) ==
    IF \E s \in Slots : tbl[s].dst_sock <= 0
    THEN CHOOSE s \in Slots :
            /\ tbl[s].dst_sock <= 0
            /\ \A r \in Slots : r < s => tbl[r].dst_sock > 0
    ELSE NULL

\* get_free_trx() sets conn_state of the slot it returns
Picked(tbl, s) == [tbl EXCEPT ![s].conn_state = CONN_STATE_NA]

\* send_to_dns() that also stamps the slot with the time of the send
send_to_dns_touch(t, len) ==
    IF len < t.data_len
    THEN [t EXCEPT !.data = memmove(t.data, len, t.data_len - len),
                   !.data_len = t.data_len - len,
                   !.time = now]
    ELSE [t EXCEPT !.conn_state = CONN_STATE_RECV,
                   !.data_len = t.data_len - len,
                   !.time = now]

\* send_to_dns() with <= in place of < in its test for a short count
send_to_dns_le(t, len) ==
    IF len <= t.data_len
    THEN [t EXCEPT !.data = memmove(t.data, len, t.data_len - len),
                   !.data_len = t.data_len - len]
    ELSE [t EXCEPT !.conn_state = CONN_STATE_RECV,
                   !.data_len = t.data_len - len]

\* send_to_dns() without the memmove(): the unsent rest is not moved to
\* the front of the buffer
send_to_dns_nomove(t, len) ==
    IF len < t.data_len
    THEN [t EXCEPT !.data_len = t.data_len - len]
    ELSE [t EXCEPT !.conn_state = CONN_STATE_RECV,
                   !.data_len = t.data_len - len]

\* send_to_dns() after send() accepted len >= 0 bytes
send_to_dns(t, len) ==
    IF len < t.data_len
    THEN [t EXCEPT !.data = memmove(t.data, len, t.data_len - len),
                   !.data_len = t.data_len - len]
    ELSE [t EXCEPT !.conn_state = CONN_STATE_RECV,
                   !.data_len = t.data_len - len]

\* the sweep's test with <= in place of <
IsStale_le(t, c) == t.time <= c - TIMEOUT

\* the sweep's test: trx[i].time < curr - TIMEOUT
IsStale(t, c) == t.time < c - TIMEOUT

\* close() without trx[i].dst_sock = 0
Release_keep(t) == t

\* close(trx[i].dst_sock); trx[i].dst_sock = 0
Release(t) == [t EXCEPT !.dst_sock = 0]

\* recvfrom() into &inp->data[2], at most sizeof(inp->data) - 2 bytes
RecvFrom(t, d) ==
    LET len == Min(Len(d.data), DataSize - 2)
    IN [t EXCEPT !.data = Store(t.data, 2, SubSeq(d.data, 1, len)),
                 !.data_len = len,
                 !.addr = d.from,
                 !.addr_len = SockAddrLen]

\* the length test with > in place of >=
LongEnough_gt(t) == t.data_len > MIN_DGRAM

\* the length test of line 485: inp->data_len >= 12
LongEnough(t) == t.data_len >= MIN_DGRAM

\* the same branch with CONN_STATE_RECV in place of CONN_STATE_SEND
StartSend_recv(t, sock, clock) ==
    [t EXCEPT !.dst_sock = sock,
              !.conn_state = CONN_STATE_RECV,
              !.data = Store(t.data, 0, htons(t.data_len)),
              !.data_len = t.data_len + 2,
              !.time = clock]

\* the same branch without time = time(NULL)
StartSend_notime(t, sock, clock) ==
    [t EXCEPT !.dst_sock = sock,
              !.conn_state = CONN_STATE_SEND,
              !.data = Store(t.data, 0, htons(t.data_len)),
              !.data_len = t.data_len + 2]

\* the same branch with the header written after data_len += 2
StartSend_lateheader(t, sock, clock) ==
    [t EXCEPT !.dst_sock = sock,
              !.conn_state = CONN_STATE_SEND,
              !.data = Store(t.data, 0, htons(t.data_len + 2)),
              !.data_len = t.data_len + 2,
              !.time = clock]

\* the same branch without conn_state = CONN_STATE_SEND
StartSend_nostate(t, sock, clock) ==
    [t EXCEPT !.dst_sock = sock,
              !.data = Store(t.data, 0, htons(t.data_len)),
              !.data_len = t.data_len + 2,
              !.time = clock]

\* the branch taken when connect_to_dns_server() returned sock > 0
StartSend(t, sock, clock) ==
    [t EXCEPT !.dst_sock = sock,
              !.conn_state = CONN_STATE_SEND,
              !.data = Store(t.data, 0, htons(t.data_len)),
              !.data_len = t.data_len + 2,
              !.time = clock]

\* recv() into data instead of data + data_len
RecvInto_front(t, bytes) ==
    [t EXCEPT !.data = Store(t.data, 0, bytes),
              !.data_len = t.data_len + Len(bytes)]

\* recv() appended the bytes at data + data_len
RecvInto(t, bytes) ==
    [t EXCEPT !.data = Store(t.data, t.data_len, bytes),
              !.data_len = t.data_len + Len(bytes)]

\* the completion test with <= in place of ==
IsComplete_le(t) == t.data_len - 2 <= ntohs(t.data)

\* the completion test without the - 2
IsComplete_nostrip(t) == t.data_len = ntohs(t.data)

\* the completion test: data_len - 2 == ntohs(*((uint16_t*) &data[0]))
IsComplete(t) == t.data_len - 2 = ntohs(t.data)

\* sendto() of the buffer with its length field: data, data_len bytes
ReplyBytes_whole(t) == SubSeq(t.data, 1, t.data_len)

\* the bytes handed to sendto(): &data[2], data_len - 2 of them
ReplyBytes(t) == SubSeq(t.data, 3, t.data_len)

\* sendto() with the endpoint of the table's first slot
ReplyTo_first(tbl, j) == tbl[0].addr

\* the endpoint handed to sendto(): &trx[i].addr
ReplyTo(tbl, j) == tbl[j].addr

\* the relay branch without close() and dst_sock = 0
Relayed_keep(t) == [t EXCEPT !.data_len = 0]

\* the slot after the reply was handed to sendto()
Relayed(t) == [t EXCEPT !.dst_sock = 0, !.data_len = 0]

\* a slot the loops do not skip: dst_sock > 0
InUse(t) == t.dst_sock > 0

(***************************************************************************)
(* The kernel and the network.                                             *)
(***************************************************************************)
\* socket() and accept() return the lowest descriptor that is not open
HasFd == UpFds \ open # {}
NewFd == CHOOSE fd \in UpFds \ open : \A g \in UpFds \ open : fd <= g

\* the release paths without their close(): the descriptors stay open
CloseAll_none(fds) == UNCHANGED << open, conn >>

\* close() of a set of upstream descriptors
CloseAll(fds) ==
    /\ open' = open \ fds
    /\ conn' = [fd \in UpFds |-> IF fd \in fds THEN NoConn ELSE conn[fd]]

Readable(fd) ==
    \/ fd = udp_sock /\ udp_queue # <<>>
    \/ fd = tcp_sock /\ tcp_in > 0
    \/ fd \in UpFds /\ \/ conn[fd].st \in {"fin", "reset", "refused"}
                       \/ conn[fd].avail > conn[fd].nread

Writable(fd) == fd \in UpFds /\ conn[fd].st \in {"up", "fin", "reset", "refused"}

\* the environment changes only its own state
EnvStep ==
    /\ pc = "select"
    /\ ev' = NoEv
    /\ UNCHANGED << trx, pc, i, nfds, rset, wset, open >>

\* the clock advances; the dispatcher's work between two calls of select()
\* takes no time on the clock's scale of seconds
Tick ==
    /\ EnvStep
    /\ left.ticks > 0
    /\ now' = now + 1
    /\ left' = [left EXCEPT !.ticks = @ - 1]
    /\ UNCHANGED << udp_queue, tcp_in, conn >>

\* a client's datagram arrives at the UDP listener
ClientSend ==
    /\ EnvStep
    /\ Len(udp_queue) < MaxQueue
    /\ left.dgrams > 0
    /\ \E d \in Datagrams : udp_queue' = Append(udp_queue, Queued(d))
    /\ left' = [left EXCEPT !.dgrams = @ - 1]
    /\ UNCHANGED << now, tcp_in, conn >>

\* a host connects to the TCP listener
TcpIncoming ==
    /\ EnvStep
    /\ left.tcpin > 0
    /\ tcp_in' = tcp_in + 1
    /\ left' = [left EXCEPT !.tcpin = @ - 1]
    /\ UNCHANGED << now, udp_queue, conn >>

\* the handshake of an upstream connection ends: established
Handshake ==
    /\ EnvStep
    /\ \E fd \in UpFds :
          /\ conn[fd].st = "syn"
          /\ conn' = [conn EXCEPT ![fd].st = "up"]
    /\ UNCHANGED << now, udp_queue, tcp_in, left >>

\* what a name server answers once it holds a whole frame: one of
\* Responses, or that frame again (the echo server)
Scripts(c) ==
    IF c.script # <<>> THEN {c.script}
    ELSE IF IsFrame(c.sent) THEN Responses \cup {c.sent}
    ELSE {}

\* the rest of the name server's answer arrives on an upstream connection
UpstreamSend ==
    /\ EnvStep
    /\ \E fd \in UpFds :
          /\ conn[fd].st = "up"
          /\ \E r \in Scripts(conn[fd]) :
                /\ conn[fd].avail < Len(r)
                /\ conn' = [conn EXCEPT ![fd].script = r,
                                        ![fd].avail = Len(r)]
    /\ UNCHANGED << now, udp_queue, tcp_in, left >>

\* only the next k bytes of the answer arrive
UpstreamSendPart ==
    /\ EnvStep
    /\ left.partial > 0
    /\ \E fd \in UpFds :
          /\ conn[fd].st = "up"
          /\ \E r \in Scripts(conn[fd]) :
             \E k \in 1 .. (Len(r) - conn[fd].avail - 1) :
                conn' = [conn EXCEPT ![fd].script = r,
                                     ![fd].avail = conn[fd].avail + k]
    /\ left' = [left EXCEPT !.partial = @ - 1]
    /\ UNCHANGED << now, udp_queue, tcp_in >>

\* a fault on an upstream connection: the handshake is refused, the name
\* server closes its half early, or the connection is reset
UpstreamFault ==
    /\ EnvStep
    /\ left.faults > 0
    /\ \E fd \in UpFds :
          \/ /\ conn[fd].st = "syn"
             /\ conn' = [conn EXCEPT ![fd].st = "refused"]
          \/ /\ conn[fd].st = "up"
             /\ conn' = [conn EXCEPT ![fd].st = "fin"]
          \/ /\ conn[fd].st \in {"up", "fin"}
             /\ conn' = [conn EXCEPT ![fd].st = "reset",
                                     ![fd].avail = conn[fd].nread]
    /\ left' = [left EXCEPT !.faults = @ - 1]
    /\ UNCHANGED << now, udp_queue, tcp_in >>

(***************************************************************************)
(* dispatch_packets().  One loop iteration is Build (the sweep and the     *)
(* descriptor sets), Select, the UDP listener, the TCP listener and the    *)
(* scan over the table, which takes the read branch and then the write     *)
(* branch of a slot.  A test that finds nothing to do (a listener or a     *)
(* slot that is not in the ready sets, a free slot, the scan's loop        *)
(* condition) changes nothing, so it is part of the step before it: every  *)
(* step ends where the code next does something.                           *)
(***************************************************************************)
Event(k, s, a, b, c, n) ==
    [ NoEv EXCEPT !.kind = k, !.slot = s, !.to = a, !.bytes = b, !.c = c,
                  !.n = n ]

Max(S) == CHOOSE x \in S : \A y \in S : y <= x

\* the scan with a loop condition of nfds > 1: it ends one descriptor early
RECURSIVE ScanFrom_early(_, _, _, _, _)
ScanFrom_early(j, tbl, n, rs, ws) ==
    IF ~ (n > 1 /\ j < MAX_TRX) THEN [pc |-> "build", i |-> j]
    ELSE IF tbl[j].dst_sock <= 0 THEN ScanFrom_early(j + 1, tbl, n, rs, ws)
    ELSE IF tbl[j].dst_sock \in rs THEN [pc |-> "scan", i |-> j]
    ELSE IF tbl[j].dst_sock \in ws THEN [pc |-> "scanw", i |-> j]
    ELSE ScanFrom_early(j + 1, tbl, n, rs, ws)

\* lines 527-533, 575: the scan from slot j on with n descriptors left to
\* handle: where it next takes a branch, or leaves the loop
RECURSIVE ScanFrom(_, _, _, _, _)
ScanFrom(j, tbl, n, rs, ws) ==
    IF ~ (n > 0 /\ j < MAX_TRX) THEN [pc |-> "build", i |-> j]
    ELSE IF tbl[j].dst_sock <= 0 THEN ScanFrom(j + 1, tbl, n, rs, ws)
    ELSE IF tbl[j].dst_sock \in rs THEN [pc |-> "scan", i |-> j]
    ELSE IF tbl[j].dst_sock \in ws THEN [pc |-> "scanw", i |-> j]
    ELSE ScanFrom(j + 1, tbl, n, rs, ws)

\* lines 468, 509: after select() returned
AfterSelect(tbl, n, rs, ws) ==
    IF udp_sock \in rs THEN [pc |-> "udp", i |-> MAX_TRX]
    ELSE IF tcp_sock \in rs THEN [pc |-> "tcp", i |-> MAX_TRX]
    ELSE ScanFrom(0, tbl, n, rs, ws)

\* line 509: after the UDP listener was handled
AfterUdp(tbl, n, rs, ws) ==
    IF tcp_sock \in rs THEN [pc |-> "tcp", i |-> MAX_TRX]
    ELSE ScanFrom(0, tbl, n, rs, ws)

\* line 575: after the read branch of slot j fell through to the write test
AfterRead(j, tbl, n, rs, ws) ==
    IF tbl[j].dst_sock \in ws THEN [pc |-> "scanw", i |-> j]
    ELSE ScanFrom(j + 1, tbl, n, rs, ws)

Goto(p) == pc' = p.pc /\ i' = p.i

\* the slots the sweep of lines 427-433 closes at time c
StaleSlots(tbl, c) == { s \in Slots : InUse(tbl[s]) /\ IsStale(tbl[s], c) }

\* the set-building of lines 443-448 without its test of conn_state: every
\* slot in flight goes into rset
WaitsRead_any(tbl) == { s \in Slots : tbl[s].dst_sock > 0 }

\* lines 436-448: the slots whose descriptor goes into wset, into rset
WaitsWrite(tbl) ==
    { s \in Slots : InUse(tbl[s]) /\ tbl[s].conn_state = CONN_STATE_SEND }
WaitsRead(tbl) ==
    { s \in Slots : InUse(tbl[s]) /\ tbl[s].conn_state = CONN_STATE_RECV }

\* lines 412-457: read the clock, sweep, fill rset and wset
Build ==
    /\ pc = "build"
    /\ LET curr  == now
           stale == StaleSlots(trx, curr)
           tbl   == [s \in Slots |->
                        IF s \in stale THEN Release(trx[s]) ELSE trx[s]]
           rs    == {udp_sock, tcp_sock} \cup
                    { tbl[s].dst_sock : s \in WaitsRead(tbl) }
           ws    == { tbl[s].dst_sock : s \in WaitsWrite(tbl) }
       IN /\ trx' = tbl
          /\ CloseAll({ trx[s].dst_sock : s \in stale })
          /\ rset' = rs
          /\ wset' = ws
          /\ nfds' = Max(rs \cup ws)
          /\ ev' = IF stale = {} THEN NoEv
                   ELSE Event("sweep", Max(stale), NoAddr, <<>>, NoConn,
                              Cardinality(stale))
    /\ pc' = "select"
    /\ i' = MAX_TRX
    /\ UNCHANGED << now, udp_queue, tcp_in, left >>

\* line 460: select() returns the descriptors that are ready
Select ==
    /\ pc = "select"
    /\ LET rr == { fd \in rset : Readable(fd) }
           ww == { fd \in wset : Writable(fd) }
           n  == Cardinality(rr) + Cardinality(ww)
       IN /\ rr \cup ww # {}
          /\ rset' = rr
          /\ wset' = ww
          /\ nfds' = n
          /\ Goto(AfterSelect(trx, n, rr, ww))
    /\ ev' = NoEv
    /\ UNCHANGED << trx, now, udp_queue, tcp_in, left, open, conn >>

\* line 460: select() also reports one upstream descriptor that is not
\* ready (select(2), BUGS: a later read or write may still block)
SelectSpurious ==
    /\ pc = "select"
    /\ left.faults > 0
    /\ left' = [left EXCEPT !.faults = @ - 1]
    /\ \E fd \in (rset \cup wset) \cap UpFds :
          /\ ~ (fd \in rset /\ Readable(fd))
          /\ ~ (fd \in wset /\ Writable(fd))
          /\ LET rr == { g \in rset : Readable(g) \/ g = fd }
                 ww == { g \in wset : Writable(g) \/ g = fd }
                 n  == Cardinality(rr) + Cardinality(ww)
             IN /\ rset' = rr
                /\ wset' = ww
                /\ nfds' = n
                /\ Goto(AfterSelect(trx, n, rr, ww))
    /\ ev' = NoEv
    /\ UNCHANGED << trx, now, udp_queue, tcp_in, open, conn >>

\* lines 460-464: select() fails and the dispatcher returns -1
SelectFail ==
    /\ pc = "select"
    /\ pc' = "stopped"
    /\ ev' = Event("select_fail", NULL, NoAddr, <<>>, NoConn, 0)
    /\ UNCHANGED << trx, i, nfds, rset, wset, now, udp_queue, 
                    tcp_in, left, open, conn >>

\* lines 471-474: no free slot; the datagram is not read
UdpTableFull ==
    /\ pc = "udp"
    /\ get_free_trx(trx) = NULL
    /\ nfds' = nfds - 1
    /\ Goto(AfterUdp(trx, nfds - 1, rset, wset))
    /\ ev' = Event("tablefull", NULL, Head(udp_queue).from,
                   Head(udp_queue).data, NoConn, Len(udp_queue))
    /\ udp_queue' = [udp_queue EXCEPT ![1].held = TRUE]
    /\ UNCHANGED << trx, rset, wset, now, tcp_in, left, open, conn >>

\* lines 478-483: recvfrom() fails and the dispatcher returns -1
UdpRecvFail ==
    /\ pc = "udp"
    /\ LET inp == get_free_trx(trx)
       IN /\ inp # NULL
          /\ trx' = [Picked(trx, inp) EXCEPT ![inp].addr_len = SockAddrLen,
                                             ![inp].data_len = -1]
          /\ ev' = Event("recvfrom_fail", inp, NoAddr, <<>>, NoConn, 0)
    /\ nfds' = nfds - 1
    /\ pc' = "stopped"
    /\ UNCHANGED << i, rset, wset, now, udp_queue, tcp_in, left, open,
                    conn >>

\* lines 478-504, data_len < 12: the datagram is read and ignored
UdpShort ==
    /\ pc = "udp"
    /\ LET inp == get_free_trx(trx)
           d   == Head(udp_queue)
       IN /\ inp # NULL
          /\ LET t == RecvFrom(Picked(trx, inp)[inp], d)
                 tbl == [trx EXCEPT ![inp] = t]
             IN /\ ~ LongEnough(t)
                /\ trx' = tbl
                /\ Goto(AfterUdp(tbl, nfds - 1, rset, wset))
                /\ ev' = [Event("short", inp, d.from, d.data, NoConn,
                                Len(udp_queue)) EXCEPT !.held = d.held]
    /\ udp_queue' = Tail(udp_queue)
    /\ nfds' = nfds - 1
    /\ UNCHANGED << rset, wset, now, tcp_in, left, open, conn >>

\* lines 489-493: connect_to_dns_server() returns -1
UdpConnectFail ==
    /\ pc = "udp"
    /\ LET inp == get_free_trx(trx)
           d   == Head(udp_queue)
       IN /\ inp # NULL
          /\ LET t == RecvFrom(Picked(trx, inp)[inp], d)
                 tbl == [trx EXCEPT ![inp] =
                           [t EXCEPT !.dst_sock = -1, !.data_len = 0]]
             IN /\ LongEnough(t)
                /\ trx' = tbl
                /\ Goto(AfterUdp(tbl, nfds - 1, rset, wset))
                /\ ev' = [Event("connect_fail", inp, d.from, d.data, NoConn,
                                Len(udp_queue)) EXCEPT !.held = d.held]
    /\ udp_queue' = Tail(udp_queue)
    /\ nfds' = nfds - 1
    /\ UNCHANGED << rset, wset, now, tcp_in, left, open, conn >>

\* lines 489-501: the datagram gets a slot and a connection
UdpAccept ==
    /\ pc = "udp"
    /\ HasFd
    /\ LET inp == get_free_trx(trx)
           d   == Head(udp_queue)
       IN /\ inp # NULL
          /\ LET t == RecvFrom(Picked(trx, inp)[inp], d)
                 tbl == [trx EXCEPT ![inp] = StartSend(t, NewFd, now)]
             IN /\ LongEnough(t)
                /\ trx' = tbl
                /\ Goto(AfterUdp(tbl, nfds - 1, rset, wset))
                /\ open' = open \cup {NewFd}
                /\ conn' = [conn EXCEPT ![NewFd] = NewConn(d.data, d.from, inp)]
                /\ ev' = [Event("alloc", inp, d.from, d.data, NoConn,
                                Len(udp_queue)) EXCEPT !.held = d.held]
    /\ udp_queue' = Tail(udp_queue)
    /\ nfds' = nfds - 1
    /\ UNCHANGED << rset, wset, now, tcp_in, left >>

\* lines 512-515: a connection is pending and no slot is free
TcpTableFull ==
    /\ pc = "tcp"
    /\ get_free_trx(trx) = NULL
    /\ nfds' = nfds - 1
    /\ Goto(ScanFrom(0, trx, nfds - 1, rset, wset))
    /\ ev' = Event("tcp_tablefull", NULL, NoAddr, <<>>, NoConn, 0)
    /\ UNCHANGED << trx, rset, wset, now, udp_queue, tcp_in, left, open,
                    conn >>

\* lines 516-523: accept() into a free slot; the session is never served.
\* accept() stores the peer's endpoint in at most addr_len bytes, and
\* fails when the process has no descriptor left.
TcpAccept ==
    /\ pc = "tcp"
    /\ LET inp == get_free_trx(trx)
           tbl == IF HasFd
                  THEN [Picked(trx, inp) EXCEPT
                          ![inp].in_sock = NewFd,
                          ![inp].addr = IF trx[inp].addr_len > 0 THEN TcpPeer
                                        ELSE trx[inp].addr]
                  ELSE [Picked(trx, inp) EXCEPT ![inp].in_sock = -1]
       IN /\ inp # NULL
          /\ trx' = tbl
          /\ Goto(ScanFrom(0, tbl, nfds - 1, rset, wset))
          /\ IF HasFd
             THEN /\ open' = open \cup {NewFd}
                  /\ tcp_in' = tcp_in - 1
             ELSE UNCHANGED << open, tcp_in >>
          /\ ev' = Event("accept", inp, NoAddr, <<>>, NoConn, 0)
    /\ nfds' = nfds - 1
    /\ UNCHANGED << rset, wset, now, udp_queue, left, conn >>

\* recv() given sizeof(data) as its length whatever data_len is
RecvResult_nospace(c, space) ==
    IF c.st = "reset" THEN [rc |-> "err", bytes |-> <<>>]
    ELSE IF c.avail > c.nread
         THEN [rc |-> "ok",
               bytes |-> SubSeq(c.script, c.nread + 1,
                                c.nread + Min(c.avail - c.nread, DataSize))]
    ELSE IF c.st = "fin" THEN [rc |-> "ok", bytes |-> <<>>]
    ELSE [rc |-> "again", bytes |-> <<>>]

\* what recv() returns on an upstream descriptor with room for `space`
\* bytes: "err" (-1, connection reset), "again" (-1, EAGAIN: nothing to
\* read on a connection that is still open), or "ok" with the bytes read,
\* which are none at the end of the stream or when there is no room
RecvResult(c, space) ==
    IF c.st = "reset" THEN [rc |-> "err", bytes |-> <<>>]
    ELSE IF c.avail > c.nread
         THEN [rc |-> "ok",
               bytes |-> SubSeq(c.script, c.nread + 1,
                                c.nread + Min(c.avail - c.nread, space))]
    ELSE IF c.st = "fin" THEN [rc |-> "ok", bytes |-> <<>>]
    ELSE [rc |-> "again", bytes |-> <<>>]

\* lines 536-542: recv() returns -1; the slot is closed
ScanRecvFail ==
    /\ pc = "scan"
    /\ LET fd  == trx[i].dst_sock
           r   == RecvResult(conn[fd], DataSize - trx[i].data_len)
           tbl == [trx EXCEPT ![i] = Release(trx[i])]
       IN /\ r.rc # "ok"
          /\ trx' = tbl
          /\ CloseAll({fd})
          /\ Goto(ScanFrom(i + 1, tbl, nfds - 1, rset, wset))
          /\ ev' = Event(IF r.rc = "err" THEN "recv_err" ELSE "recv_again",
                         i, NoAddr, <<>>, NoConn, 0)
    /\ nfds' = nfds - 1
    /\ UNCHANGED << rset, wset, now, udp_queue, tcp_in, left >>

\* lines 536-547, 566-571: recv() returns bytes, the response is incomplete
ScanRecvMore ==
    /\ pc = "scan"
    /\ LET fd == trx[i].dst_sock
           r  == RecvResult(conn[fd], DataSize - trx[i].data_len)
       IN /\ r.rc = "ok"
          /\ LET t   == RecvInto(trx[i], r.bytes)
                 tbl == [trx EXCEPT ![i] = t]
             IN /\ ~ IsComplete(t)
                /\ trx' = tbl
                /\ conn' = [conn EXCEPT ![fd].nread = @ + Len(r.bytes)]
                /\ Goto(AfterRead(i, tbl, nfds - 1, rset, wset))
                /\ ev' = Event("recv_more", i, NoAddr, <<>>, NoConn,
                               Len(r.bytes))
    /\ nfds' = nfds - 1
    /\ UNCHANGED << rset, wset, now, udp_queue, tcp_in, left, open >>

\* lines 536-565: recv() completes the response; the connection is closed
\* and the payload handed to sendto(), which succeeds or fails
ScanRecvRelay ==
    /\ pc = "scan"
    /\ LET fd == trx[i].dst_sock
           r  == RecvResult(conn[fd], DataSize - trx[i].data_len)
       IN /\ r.rc = "ok"
          /\ LET t   == RecvInto(trx[i], r.bytes)
                 c   == [conn[fd] EXCEPT !.nread = @ + Len(r.bytes)]
                 tbl == [trx EXCEPT ![i] = Relayed(t)]
             IN /\ IsComplete(t)
                /\ trx' = tbl
                /\ CloseAll({fd})
                /\ Goto(AfterRead(i, tbl, nfds - 1, rset, wset))
                /\ \E ok \in BOOLEAN :
                      ev' = Event(IF ok THEN "emit" ELSE "emit_fail", i,
                                  ReplyTo(trx, i), ReplyBytes(t), c,
                                  Len(r.bytes))
    /\ nfds' = nfds - 1
    /\ UNCHANGED << rset, wset, now, udp_queue, tcp_in, left >>

\* getsockopt(SO_ERROR): the connection's pending error, 0 if none
SoError(c) == IF c.st \in {"refused", "reset"} THEN 1 ELSE 0

\* lines 585-590: SO_ERROR is not 0; the slot is closed
ScanSoError ==
    /\ pc = "scanw"
    /\ LET fd  == trx[i].dst_sock
           tbl == [trx EXCEPT ![i] = Release(trx[i])]
       IN /\ SoError(conn[fd]) # 0
          /\ trx' = tbl
          /\ CloseAll({fd})
          /\ Goto(ScanFrom(i + 1, tbl, nfds - 1, rset, wset))
          /\ ev' = Event("so_error", i, NoAddr, <<>>, NoConn, 0)
    /\ nfds' = nfds - 1
    /\ UNCHANGED << rset, wset, now, udp_queue, tcp_in, left >>

\* lines 594-599, 348-352: send() returns -1, with EAGAIN while the
\* handshake is still under way and with an error on a connection that
\* has failed; the slot is closed
ScanSendFail ==
    /\ pc = "scanw"
    /\ LET fd  == trx[i].dst_sock
           tbl == [trx EXCEPT ![i] = Release(trx[i])]
       IN /\ SoError(conn[fd]) = 0
          /\ conn[fd].st \notin {"up", "fin"}
          /\ trx' = tbl
          /\ CloseAll({fd})
          /\ Goto(ScanFrom(i + 1, tbl, nfds - 1, rset, wset))
          /\ ev' = Event(IF conn[fd].st = "syn" THEN "send_again"
                         ELSE "send_err", i, NoAddr, <<>>, NoConn, 0)
    /\ nfds' = nfds - 1
    /\ UNCHANGED << rset, wset, now, udp_queue, tcp_in, left >>

\* lines 594-599, 348-352: the connection is reset between getsockopt()
\* and send(), which returns -1; the slot is closed
ScanSendReset ==
    /\ pc = "scanw"
    /\ left.faults > 0
    /\ LET fd  == trx[i].dst_sock
           tbl == [trx EXCEPT ![i] = Release(trx[i])]
       IN /\ SoError(conn[fd]) = 0
          /\ conn[fd].st \in {"up", "fin"}
          /\ trx' = tbl
          /\ CloseAll({fd})
          /\ Goto(ScanFrom(i + 1, tbl, nfds - 1, rset, wset))
          /\ ev' = Event("send_err", i, NoAddr, <<>>, NoConn, 0)
    /\ left' = [left EXCEPT !.faults = @ - 1]
    /\ nfds' = nfds - 1
    /\ UNCHANGED << rset, wset, now, udp_queue, tcp_in >>

\* lines 594, 344-366: send() accepts len of the data_len bytes
ScanSend ==
    /\ pc = "scanw"
    /\ LET fd == trx[i].dst_sock
       IN /\ SoError(conn[fd]) = 0
          /\ conn[fd].st \in {"up", "fin"}
          /\ \E len \in 0 .. trx[i].data_len :
                LET tbl == [trx EXCEPT ![i] = send_to_dns(trx[i], len)]
                IN /\ len < trx[i].data_len => left.partial > 0
                   /\ left' = IF len < trx[i].data_len
                              THEN [left EXCEPT !.partial = @ - 1] ELSE left
                   /\ trx' = tbl
                   /\ conn' = [conn EXCEPT ![fd].sent =
                                  @ \o SubSeq(trx[i].data, 1, len)]
                   /\ Goto(ScanFrom(i + 1, tbl, nfds - 1, rset, wset))
                   /\ ev' = Event("send", i, NoAddr, <<>>, NoConn, len)
    /\ nfds' = nfds - 1
    /\ UNCHANGED << rset, wset, now, udp_queue, tcp_in, open >>

Next ==
    \/ Tick
    \/ ClientSend
    \/ TcpIncoming
    \/ Handshake
    \/ UpstreamSend
    \/ UpstreamSendPart
    \/ UpstreamFault
    \/ Build
    \/ Select
    \/ SelectSpurious
    \/ SelectFail
    \/ UdpTableFull
    \/ UdpRecvFail
    \/ UdpShort
    \/ UdpConnectFail
    \/ UdpAccept
    \/ TcpTableFull
    \/ TcpAccept
    \/ ScanRecvFail
    \/ ScanRecvMore
    \/ ScanRecvRelay
    \/ ScanSoError
    \/ ScanSendFail
    \/ ScanSendReset
    \/ ScanSend

Spec == Init /\ [][Next]_vars

\* the steps the dispatcher takes by itself; a failure of select() and a
\* spurious report of readiness are the kernel's to choose
DispatcherStep ==
    \/ Build
    \/ Select
    \/ UdpTableFull
    \/ UdpRecvFail
    \/ UdpShort
    \/ UdpConnectFail
    \/ UdpAccept
    \/ TcpTableFull
    \/ TcpAccept
    \/ ScanRecvFail
    \/ ScanRecvMore
    \/ ScanRecvRelay
    \/ ScanSoError
    \/ ScanSendFail
    \/ ScanSendReset
    \/ ScanSend

\* the process is scheduled whenever it can run, and the clock keeps going
\* for as long as the run lasts; nothing is assumed of clients and servers
FairSpec == Spec /\ WF_vars(DispatcherStep) /\ WF_vars(Tick)

(***************************************************************************)
(* Properties.                                                             *)
(***************************************************************************)
\* the upstream connection of slot s
ConnOf(s) == conn[trx[s].dst_sock]

\* a datagram was handed to sendto() and sent
Emitted == ev.kind = "emit"

\* C1 (response pairing): a slot in flight keeps the endpoint of the client
\* whose datagram it was allocated for and owns its connection alone, and
\* every datagram emitted goes to the client of the slot on whose
\* connection its bytes were received, after that client's datagram was
\* sent as the query on this same connection.
C1_ResponsePairing ==
    /\ \A s \in Slots :
          InUse(trx[s]) =>
             /\ trx[s].dst_sock \in open
             /\ ConnOf(s).slot = s
             /\ ConnOf(s).client = trx[s].addr
             /\ \A r \in Slots \ {s} : trx[r].dst_sock # trx[s].dst_sock
    /\ Emitted =>
          /\ ev.c.slot = ev.slot
          /\ ev.to = ev.c.client
          /\ [from |-> ev.to, data |-> ev.c.query] \in Datagrams
          /\ ev.c.sent = Frame(ev.c.query)
          /\ ev.bytes = SubSeq(ev.c.script, 3, ev.c.nread)

\* a response goes back to one client while the other slot is in flight for
\* a different client
C1_Witness ==
    /\ Emitted
    /\ \E s \in Slots : InUse(trx[s]) /\ trx[s].addr # ev.to

\* C2 (payload integrity): the payload of an emitted datagram is exactly
\* the bytes received on the connection after the first two, with nothing
\* added or left from earlier use of the slot; for a well formed response
\* this is the message that follows the length field.
C2_PayloadIntegrity ==
    ev.kind \in {"emit", "emit_fail"} =>
       /\ Len(ev.bytes) = ev.c.nread - 2
       /\ \A k \in 1 .. Len(ev.bytes) : ev.bytes[k] = ev.c.script[k + 2]
       /\ IsFrame(ev.c.script) => ev.bytes = Payload(ev.c.script)

\* a response that took more than one recv() is emitted from a slot whose
\* buffer held the query before
C2_Witness ==
    /\ Emitted
    /\ IsFrame(ev.c.script)
    /\ ev.n < ev.c.nread
    /\ ev.bytes # ev.c.query

\* C3 (upstream framing): what was written to the connection of a slot,
\* followed by what the slot still holds to send, is the length of the
\* client's datagram as two bytes, high byte first, and then the datagram;
\* once the slot receives, exactly that has been written.
C3_UpstreamFraming ==
    \A s \in Slots :
       InUse(trx[s]) =>
          /\ trx[s].conn_state = CONN_STATE_SEND =>
                /\ trx[s].data_len > 0
                /\ ConnOf(s).sent \o SubSeq(trx[s].data, 1, trx[s].data_len)
                      = Frame(ConnOf(s).query)
          /\ trx[s].conn_state = CONN_STATE_RECV =>
                ConnOf(s).sent = Frame(ConnOf(s).query)

\* the last byte of a frame goes out by itself, after short counts
C3_Witness ==
    /\ ev.kind = "send"
    /\ ev.n = 1
    /\ trx[ev.slot].conn_state = CONN_STATE_RECV
    /\ Len(ConnOf(ev.slot).sent) > 2 + MIN_DGRAM

\* C4 (echo round trip): when the name server answers with the bytes it
\* was sent, the client gets back exactly the datagram it sent.
C4_EchoRoundTrip ==
    (Emitted /\ ev.c.script = ev.c.sent) =>
       /\ ev.bytes = ev.c.query
       /\ ev.to = ev.c.client
       /\ Len(ev.bytes) >= MIN_DGRAM

\* the longer datagram comes back from an echoing server
C4_Witness ==
    /\ Emitted
    /\ ev.c.script = ev.c.sent
    /\ Len(ev.bytes) > MIN_DGRAM

\* slot s is in flight for more than TIMEOUT seconds
Overdue(s) == InUse(trx[s]) /\ now > trx[s].time + TIMEOUT

\* C5 (timeout liveness): a slot that is in flight for more than TIMEOUT
\* seconds on an established connection is eventually closed, unless the
\* dispatcher has returned.
C5_TimeoutLiveness ==
    \A s \in Slots :
       (Overdue(s) /\ ConnOf(s).st = "up")
          ~> (~ InUse(trx[s]) \/ pc = "stopped")

\* every slot is in flight
TableFull == \A s \in Slots : trx[s].dst_sock > 0

\* the datagrams waiting on the listener, in order
Waiting(q) == [k \in 1 .. Len(q) |-> [from |-> q[k].from, data |-> q[k].data]]

C7_Admission ==
    /\ Cardinality({ s \in Slots : InUse(trx[s]) }) <= MAX_TRX
    /\ ev.kind = "tablefull" => TableFull
    /\ ev.kind = "short" => Len(ev.bytes) < MIN_DGRAM
    /\ ev.kind = "alloc" =>
          /\ Len(ev.bytes) >= MIN_DGRAM
          /\ InUse(trx[ev.slot])
          /\ trx[ev.slot].conn_state = CONN_STATE_SEND
          /\ ConnOf(ev.slot).query = ev.bytes

\* the table's last free slot is given to a datagram
C7_Witness == ev.kind = "alloc" /\ TableFull /\ ev.slot > 0

\* C8 as stated (free slot invariant): between two iterations a slot is
\* idle exactly if its descriptor is invalid, exactly if it holds no bytes.
C8_AsStated ==
    pc = "select" =>
       \A s \in Slots :
          /\ (trx[s].conn_state = CONN_STATE_NA) <=> ~ InUse(trx[s])
          /\ ~ InUse(trx[s]) <=> (trx[s].data_len = 0)

\* the steps that end a transaction
Releases ==
    {"sweep", "recv_err", "recv_again", "so_error", "send_again", "send_err",
     "emit", "emit_fail"}

\* C8 (free slot): between two iterations an idle slot has an invalid
\* descriptor and a slot with a valid descriptor sends or receives, with
\* bytes to send if it sends; every step that ends a transaction or turns
\* a datagram down leaves the slot with an invalid descriptor, and with no
\* bytes after a relay and after a failed connect.
C8_FreeSlot ==
    /\ pc = "select" =>
          \A s \in Slots :
             /\ trx[s].conn_state = CONN_STATE_NA => ~ InUse(trx[s])
             /\ InUse(trx[s]) =>
                   /\ trx[s].conn_state \in {CONN_STATE_SEND, CONN_STATE_RECV}
                   /\ trx[s].conn_state = CONN_STATE_SEND =>
                         trx[s].data_len > 0
    /\ ev.kind \in Releases \cup {"short", "connect_fail"} =>
          ~ InUse(trx[ev.slot])
    /\ ev.kind \in {"emit", "emit_fail", "connect_fail"} =>
          trx[ev.slot].data_len = 0
    /\ ev.kind = "connect_fail" => trx[ev.slot].dst_sock = -1

\* a closed slot still has its state and its bytes
C8_Witness ==
    /\ pc = "select"
    /\ \E s \in Slots :
          /\ ~ InUse(trx[s])
          /\ trx[s].conn_state = CONN_STATE_RECV
          /\ trx[s].data_len > 0

\* C9 (connect refused): when the write branch finds the connection of
\* the slot at hand refused or reset, the step writes nothing to it and
\* emits nothing, closes the slot and its connection, leaves a slot free
\* for the next datagram, and the dispatcher goes on; nothing was ever
\* written to a connection that was refused.
C9_ConnectRefused ==
    [][ (pc = "scanw" /\ ConnOf(i).st \in {"refused", "reset"}) =>
           /\ ConnOf(i).st = "refused" => ConnOf(i).sent = <<>>
           /\ ev'.kind \notin {"send", "emit", "emit_fail"}
           /\ ev'.slot = i
           /\ ~ InUse(trx'[i])
           /\ trx[i].dst_sock \notin open'
           /\ conn'[trx[i].dst_sock] = NoConn
           /\ get_free_trx(trx') # NULL
           /\ pc' # "stopped"
      ]_vars

\* a refused connection was closed, the dispatcher goes on and another
\* datagram can still arrive
C9_Witness ==
    /\ ev.kind = "so_error"
    /\ ~ InUse(trx[ev.slot])
    /\ pc # "stopped"
    /\ left.dgrams > 0

\* C10 as stated (I/O failure): a slot whose recv() or send() reports that
\* the call would block stays in flight.
C10_AsStated ==
    ev.kind \in {"recv_again", "send_again"} => InUse(trx[ev.slot])

\* C11 (client reply failure): the step that finds a response complete
\* hands it to sendto() once and, whether sendto() succeeds or fails,
\* closes the connection, frees the slot, keeps no byte of the response to
\* send again, and the dispatcher goes on.
C11_ReplyFailure ==
    [][ (pc = "scan" /\ ev'.kind \in {"emit", "emit_fail"}) =>
           /\ ev'.slot = i
           /\ ev'.bytes = SubSeq(ev'.c.script, 3, ev'.c.nread)
           /\ ~ InUse(trx'[i])
           /\ trx'[i].data_len = 0
           /\ trx[i].dst_sock \notin open'
           /\ conn'[trx[i].dst_sock] = NoConn
           /\ \A s \in Slots \ {i} : trx'[s] = trx[s]
           /\ pc' \in {"scan", "scanw", "build"}
      ]_vars

\* sendto() failed, the slot is free and the dispatcher is back at the top
\* of its loop
C11_Witness ==
    /\ ev.kind = "emit_fail"
    /\ ~ InUse(trx[ev.slot])
    /\ pc = "build"

\* the first slot that is not in flight
FirstFree(tbl) ==
    CHOOSE s \in Slots :
       /\ ~ InUse(tbl[s])
       /\ \A r \in Slots : r < s => InUse(tbl[r])

\* C12 (short datagram): when the listener is read with a slot free, a
\* datagram shorter than the minimum opens no connection and leaves every
\* slot as free or as busy as it was: the slot picked for it is the one the
\* next search returns, and no other slot changes; a datagram of exactly
\* the minimum length is not turned down as short.
C12_ShortDatagram ==
    [][ (pc = "udp" /\ ~ TableFull /\ ev'.kind # "recvfrom_fail") =>
           LET d   == Head(udp_queue)
               inp == FirstFree(trx)
           IN /\ Len(d.data) < MIN_DGRAM =>
                    /\ ev'.kind = "short"
                    /\ ev'.slot = inp
                    /\ open' = open
                    /\ conn' = conn
                    /\ ~ InUse(trx'[inp])
                    /\ get_free_trx(trx') = inp
                    /\ \A s \in Slots \ {inp} : trx'[s] = trx[s]
                    /\ udp_queue' = Tail(udp_queue)
              /\ Len(d.data) >= MIN_DGRAM =>
                    /\ ev'.kind \in {"alloc", "connect_fail"}
                    /\ ev'.bytes = d.data
      ]_vars

\* a short datagram was turned down while the other slot is in flight, and
\* a datagram of exactly the minimum length has a slot
C12_Witness ==
    /\ ev.kind = "short"
    /\ \E s \in Slots :
          /\ InUse(trx[s])
          /\ ConnOf(s).query \in { d.data : d \in Datagrams }
          /\ Len(ConnOf(s).query) = MIN_DGRAM

\* C13 as stated (dispatcher termination): the dispatcher returns only
\* when select() has failed.
C13_AsStated == pc = "stopped" => ev.kind = "select_fail"

(***************************************************************************)
(* The arithmetic of the length header by itself, with the source's        *)
(* buffer size: a datagram of n bytes is offered to recvfrom(), and the    *)
(* slot that took it goes through the length test and the framing of       *)
(* lines 485-500.  Only lengths are followed; the bytes of the datagram    *)
(* play no part in them.                                                   *)
(***************************************************************************)
\* #define FRAMESIZE 65536, not scaled
FRAMESIZE_SRC == 65536

\* lengths up to NearLen above 0 and around FRAMESIZE_SRC are offered
NearLen == 40

FrameLengths ==
    (0 .. NearLen) \cup ((FRAMESIZE_SRC - NearLen) .. (FRAMESIZE_SRC + NearLen))

FrameInit ==
    /\ trx = [s \in Slots |-> NewTrx]
    /\ pc = "frame_recv"
    /\ i = MAX_TRX
    /\ nfds = 0
    /\ rset = {}
    /\ wset = {}
    /\ now = 0
    /\ udp_queue = <<>>
    /\ tcp_in = 0
    /\ left = Quiet
    /\ open = {}
    /\ conn = [fd \in UpFds |-> NoConn]
    /\ \E n \in FrameLengths : ev = [NoEv EXCEPT !.kind = "offer", !.n = n]

\* lines 477-479: recvfrom() with room for sizeof(data) - 2 bytes returns
\* the datagram's length, or the room if the datagram is longer
FrameRecv ==
    /\ pc = "frame_recv"
    /\ trx' = [trx EXCEPT ![0].data_len = Min(ev.n, (FRAMESIZE_SRC + 2) - 2),
                          ![0].addr_len = SockAddrLen]
    /\ pc' = "frame_test"
    /\ UNCHANGED << i, nfds, rset, wset, now, udp_queue, tcp_in, left, open,
                    conn, ev >>

\* lines 485, 503-504: the datagram is too short
FrameShort ==
    /\ pc = "frame_test"
    /\ ~ LongEnough(trx[0])
    /\ pc' = "frame_short"
    /\ UNCHANGED << trx, i, nfds, rset, wset, now, udp_queue, tcp_in, left,
                    open, conn, ev >>

\* lines 485, 494-500: the length header is put before the datagram
FrameStart ==
    /\ pc = "frame_test"
    /\ LongEnough(trx[0])
    /\ trx' = [trx EXCEPT ![0] = StartSend(trx[0], tcp_sock + 1, now)]
    /\ pc' = "framed"
    /\ UNCHANGED << i, nfds, rset, wset, now, udp_queue, tcp_in, left, open,
                    conn, ev >>

FrameNext ==
    \/ FrameRecv
    \/ FrameShort
    \/ FrameStart

FrameSpec == FrameInit /\ [][FrameNext]_vars

\* C14 as stated (length prefix): only a datagram of at most 65535 bytes is
\* framed, and a framed datagram of n bytes has data_len = n + 2 and a
\* header whose two bytes, high byte first, have the value n.
C14_AsStated ==
    pc = "framed" =>
       /\ ev.n <= 65535
       /\ trx[0].data_len = ev.n + 2
       /\ trx[0].data[1] * 256 + trx[0].data[2] = ev.n

\* the upstream connections that exist
Live == { fd \in UpFds : conn[fd].st # "closed" }

\* C15 (no retry, no duplication): every connection belongs to the slot in
\* flight that holds its descriptor and every slot in flight holds one, so
\* no slot has two; a connection comes into being only when a datagram is
\* given a slot, one per datagram, and serves that datagram to its end; and
\* the step that emits a datagram ends the connection the bytes came from.
C15_NoDuplication ==
    [][ /\ \A fd \in Live :
              /\ InUse(trx[conn[fd].slot])
              /\ trx[conn[fd].slot].dst_sock = fd
        /\ \A s \in Slots : InUse(trx[s]) => trx[s].dst_sock \in Live
        /\ (pc = "udp" /\ ev'.kind = "alloc") =>
              \E fd \in UpFds \ Live :
                 /\ Live' = Live \cup {fd}
                 /\ trx'[ev'.slot].dst_sock = fd
                 /\ conn'[fd].query = Head(udp_queue).data
                 /\ conn'[fd].client = Head(udp_queue).from
                 /\ conn'[fd].slot = ev'.slot
        /\ ~ (pc = "udp" /\ ev'.kind = "alloc") => Live' \subseteq Live
        /\ \A fd \in Live \cap Live' :
              /\ conn'[fd].query = conn[fd].query
              /\ conn'[fd].client = conn[fd].client
              /\ conn'[fd].slot = conn[fd].slot
        /\ (pc = "scan" /\ ev'.kind \in {"emit", "emit_fail"}) =>
              /\ trx[i].dst_sock \in Live \ Live'
              /\ Cardinality(Live') = Cardinality(Live) - 1
      ]_vars

\* a datagram is emitted while every other slot is in flight on a
\* connection of its own
C15_Witness ==
    /\ Emitted
    /\ Cardinality(Live) = MAX_TRX - 1
    /\ \A s \in Slots \ {ev.slot} : InUse(trx[s])

\* the changes of conn_state a slot makes while it stays in flight
Moves ==
    { << CONN_STATE_SEND, CONN_STATE_SEND >>,
      << CONN_STATE_SEND, CONN_STATE_RECV >>,
      << CONN_STATE_RECV, CONN_STATE_RECV >> }

\* C16 (transition order): a slot that stays in flight keeps its
\* descriptor and goes from sending to sending, from sending to receiving
\* or from receiving to receiving, and a send is the only step that takes
\* it to receiving; a slot that is not in flight gets in flight only in
\* the step that gives a datagram a slot, and then it sends.
C16_TransitionOrder ==
    [][ \A s \in Slots :
           /\ (InUse(trx[s]) /\ InUse(trx'[s])) =>
                 /\ trx'[s].dst_sock = trx[s].dst_sock
                 /\ << trx[s].conn_state, trx'[s].conn_state >> \in Moves
                 /\ trx'[s].conn_state # trx[s].conn_state =>
                       (pc = "scanw" /\ i = s /\ ev'.kind = "send")
           /\ (~ InUse(trx[s]) /\ InUse(trx'[s])) =>
                 /\ pc = "udp"
                 /\ ev'.kind = "alloc"
                 /\ ev'.slot = s
                 /\ trx'[s].conn_state = CONN_STATE_SEND
      ]_vars

\* a slot that was in flight before is in flight again, sending, for a
\* datagram that had to wait for it
C16_Witness ==
    /\ ev.kind = "alloc"
    /\ ev.held
    /\ trx[ev.slot].conn_state = CONN_STATE_SEND
    /\ \E s \in Slots \ {ev.slot} : trx[s].conn_state = CONN_STATE_RECV

\* C17 (sweep): when the sweep looks at the table every slot in flight
\* sends or receives and has the time stamp of the step that put it in
\* flight, which is not in the future; after the sweep every slot still in
\* flight has its descriptor in one of the two sets, so the branch for any
\* other state is not taken.
C17_SweepStates ==
    [][ /\ pc = "build" =>
              \A s \in Slots :
                 /\ InUse(trx[s]) =>
                       /\ trx[s].conn_state \in
                             {CONN_STATE_SEND, CONN_STATE_RECV}
                       /\ trx[s].time <= now
                 /\ InUse(trx'[s]) =>
                       /\ s \in WaitsWrite(trx') \cup WaitsRead(trx')
                       /\ trx'[s].dst_sock \in rset' \cup wset'
        /\ \A s \in Slots :
              /\ (~ InUse(trx[s]) /\ InUse(trx'[s])) => trx'[s].time = now
              /\ (InUse(trx[s]) /\ InUse(trx'[s])) =>
                    trx'[s].time = trx[s].time
      ]_vars

\* the sweep is about to look at a slot that was put in flight after the
\* clock had moved, and the clock has moved since
C17_Witness ==
    /\ pc = "build"
    /\ \E s \in Slots :
          /\ InUse(trx[s])
          /\ trx[s].time > 0
          /\ now > trx[s].time

\* the value of the first two bytes of a buffer, high byte first
Header(data) == data[1] * 256 + data[2]

\* C18 as stated (sending buffer): every slot in flight that sends holds at
\* least two bytes, the first two of which give the count of the others.
C18_AsStated ==
    \A s \in Slots :
       (InUse(trx[s]) /\ trx[s].conn_state = CONN_STATE_SEND) =>
          /\ trx[s].data_len >= 2
          /\ Header(trx[s].data) = trx[s].data_len - 2

\* C18 (sending buffer): a slot in flight that sends holds at least one
\* byte, and what it holds is the part of the frame of its datagram that
\* send() has not accepted yet; until send() has accepted a byte this is
\* the whole frame: at least two bytes, the first two of which give the
\* count of the others.
C18_SendingBuffer ==
    \A s \in Slots :
       (InUse(trx[s]) /\ trx[s].conn_state = CONN_STATE_SEND) =>
          LET f    == Frame(ConnOf(s).query)
              done == Len(ConnOf(s).sent)
          IN /\ trx[s].data_len >= 1
             /\ done + trx[s].data_len = Len(f)
             /\ SubSeq(trx[s].data, 1, trx[s].data_len)
                   = SubSeq(f, done + 1, Len(f))
             /\ done = 0 =>
                   /\ trx[s].data_len >= 2
                   /\ Header(trx[s].data) = trx[s].data_len - 2

\* a slot has one byte left to send, and it is not a header
C18_Witness ==
    \E s \in Slots :
       /\ InUse(trx[s])
       /\ trx[s].conn_state = CONN_STATE_SEND
       /\ trx[s].data_len = 1
       /\ Len(ConnOf(s).sent) > 2

\* the bytes read from a connection so far are a header and as many bytes
\* as it announces
CompleteAt(c) == c.nread >= 2 /\ c.nread - 2 = Header(c.script)

\* C19 (response completion): a response is relayed only by a read after
\* which at least two bytes have been read from the connection and the
\* first two announce exactly the others; a slot that receives has its
\* connection open, holds exactly the bytes read from it so far, and these
\* are not yet complete; a read that leaves the response incomplete leaves
\* the slot receiving.
C19_Completion ==
    /\ ev.kind \in {"emit", "emit_fail"} =>
          /\ CompleteAt(ev.c)
          /\ ~ InUse(trx[ev.slot])
    /\ \A s \in Slots :
          (InUse(trx[s]) /\ trx[s].conn_state = CONN_STATE_RECV) =>
             /\ ConnOf(s).st # "closed"
             /\ trx[s].data_len = ConnOf(s).nread
             /\ SubSeq(trx[s].data, 1, trx[s].data_len)
                   = SubSeq(ConnOf(s).script, 1, ConnOf(s).nread)
             /\ ~ CompleteAt(ConnOf(s))
    /\ ev.kind = "recv_more" =>
          /\ InUse(trx[ev.slot])
          /\ trx[ev.slot].conn_state = CONN_STATE_RECV

\* the header came by itself and the rest of the response in a later read
C19_Witness ==
    /\ Emitted
    /\ IsFrame(ev.c.script)
    /\ ev.c.nread - ev.n = 2
    /\ ev.bytes = Payload(ev.c.script)

\* C20 (send): a send that accepts all the bytes a slot holds takes it to
\* receiving with no byte held, and no other step takes a slot to
\* receiving; a send that accepts fewer leaves it sending, with that many
\* bytes less and the bytes not accepted at the front of the buffer, in
\* order.
C20_SendStep ==
    [][ /\ (pc = "scanw" /\ ev'.kind = "send") =>
              LET len == ev'.n
                  t   == trx[i]
                  u   == trx'[i]
              IN /\ len \in 0 .. t.data_len
                 /\ InUse(u)
                 /\ u.dst_sock = t.dst_sock
                 /\ conn'[t.dst_sock].sent
                       = conn[t.dst_sock].sent \o SubSeq(t.data, 1, len)
                 /\ len = t.data_len =>
                       /\ u.conn_state = CONN_STATE_RECV
                       /\ u.data_len = 0
                 /\ len < t.data_len =>
                       /\ u.conn_state = CONN_STATE_SEND
                       /\ u.data_len = t.data_len - len
                       /\ SubSeq(u.data, 1, u.data_len)
                             = SubSeq(t.data, len + 1, t.data_len)
        /\ \A s \in Slots :
              (trx[s].conn_state # CONN_STATE_RECV
                  /\ trx'[s].conn_state = CONN_STATE_RECV) =>
                 /\ pc = "scanw"
                 /\ i = s
                 /\ ev'.kind = "send"
                 /\ ev'.n = trx[s].data_len
      ]_vars

\* a send took some of the bytes and the slot goes on sending the rest
C20_Witness ==
    /\ ev.kind = "send"
    /\ ev.n > 0
    /\ trx[ev.slot].conn_state = CONN_STATE_SEND
    /\ trx[ev.slot].data_len > 1

\* C21 (readiness sets and tie-break): when the dispatcher waits, the UDP
\* listener is in the read set, every upstream descriptor in the sets is
\* that of a slot in flight, and a slot's descriptor is in the write set
\* only if the slot is SENDING and in the read set only if it is RECEIVING;
\* so no descriptor is in both sets, the read branch is taken only on a
\* RECEIVING slot and the write branch only on a SENDING one, neither on a
\* descriptor that is in the other set, and a slot that was just written to
\* (and may have moved to RECEIVING) is not in this cycle's read set.
C21_ReadinessSets ==
    /\ pc = "select" =>
          /\ udp_sock \in rset
          /\ (rset \cup wset) \cap UpFds \subseteq
                { trx[s].dst_sock : s \in { r \in Slots : trx[r].dst_sock > 0 } }
          /\ \A s \in Slots :
                trx[s].dst_sock > 0 =>
                   /\ trx[s].dst_sock \in wset =>
                         trx[s].conn_state = CONN_STATE_SEND
                   /\ trx[s].dst_sock \in rset =>
                         trx[s].conn_state = CONN_STATE_RECV
    /\ (rset \cap wset) = {}
    /\ pc = "scan" =>
          /\ trx[i].conn_state = CONN_STATE_RECV
          /\ trx[i].dst_sock \in rset \ wset
    /\ pc = "scanw" =>
          /\ trx[i].conn_state = CONN_STATE_SEND
          /\ trx[i].dst_sock \in wset \ rset
    /\ ev.kind = "send" => trx[ev.slot].dst_sock \notin rset

\* a slot has just sent its whole frame and become RECEIVING, and the scan
\* goes on to read from another slot in the same cycle
C21_Witness ==
    /\ ev.kind = "send"
    /\ trx[ev.slot].conn_state = CONN_STATE_RECV
    /\ pc = "scan"
    /\ i > ev.slot

\* C22 (stale sweep): the sweep at the start of a loop iteration frees
\* exactly the slots in flight with time < now - TIMEOUT and closes their
\* descriptors, a slot of age exactly TIMEOUT is kept, no other slot and no
\* other field changes, and right after the sweep every slot in flight
\* has now - time <= TIMEOUT.
C22_StaleSweep ==
    [][ pc = "build" =>
          LET old == { s \in Slots : /\ trx[s].dst_sock > 0
                                     /\ trx[s].time < now - TIMEOUT }
          IN /\ \A s \in Slots :
                   trx'[s] = IF s \in old
                             THEN [trx[s] EXCEPT !.dst_sock = 0]
                             ELSE trx[s]
             /\ open' = open \ { trx[s].dst_sock : s \in old }
             /\ \A s \in old : conn'[trx[s].dst_sock].st = "closed"
             /\ \A s \in Slots :
                   trx'[s].dst_sock > 0 => now - trx'[s].time <= TIMEOUT
      ]_vars

\* a sweep has just closed a slot and kept one whose age is exactly TIMEOUT
C22_Witness ==
    /\ ev.kind = "sweep"
    /\ pc = "select"
    /\ \E s \in Slots : /\ trx[s].dst_sock > 0
                        /\ now - trx[s].time = TIMEOUT

\* C23 (client address frame condition): while a slot is in flight, from
\* the step that allocates it to the step that releases it, no step of the
\* dispatcher changes its addr or addr_len, and they are the endpoint the
\* slot's datagram came from: not a send or a receive, not a sweep, not
\* another datagram, the full table, a short datagram or an incoming TCP
\* connection.
C23_ClientAddrFrame ==
    [][ \A s \in Slots :
           /\ (trx[s].dst_sock > 0 /\ trx'[s].dst_sock > 0) =>
                 /\ trx'[s].addr = trx[s].addr
                 /\ trx'[s].addr_len = trx[s].addr_len
           /\ trx'[s].dst_sock > 0 =>
                 trx'[s].addr = conn'[trx'[s].dst_sock].client
      ]_vars

\* an incoming TCP connection has just been accepted into a free slot,
\* whose addr now names the TCP peer, while another slot is in flight
C23_Witness ==
    /\ ev.kind = "accept"
    /\ trx[ev.slot].addr = TcpPeer
    /\ \E s \in Slots : trx[s].dst_sock > 0 /\ trx[s].addr \in Clients

\* the slots in flight from index j on whose descriptor select() reported
Reported(j) ==
    { s \in Slots : /\ s >= j
                    /\ trx[s].dst_sock > 0
                    /\ trx[s].dst_sock \in rset \cup wset }

\* C24 (no ready slot is skipped): from the return of select() to the end
\* of the loop iteration, nfds is the number of reported descriptors not
\* yet handled (the listeners while their turn is to come, and the
\* reported slots from the scan's index on), so it is above zero while a
\* reported slot is still to be handled, and when the iteration ends no
\* reported slot is left unhandled.
C24_NoReadySkipped ==
    /\ pc = "udp" =>
          /\ udp_sock \in rset
          /\ nfds = 1 + Cardinality({tcp_sock} \cap rset)
                      + Cardinality(Reported(0))
    /\ pc = "tcp" =>
          /\ tcp_sock \in rset
          /\ nfds = 1 + Cardinality(Reported(0))
    /\ pc \in {"scan", "scanw"} =>
          /\ i \in Reported(i)
          /\ nfds = Cardinality(Reported(i))
    /\ pc = "build" => Reported(i) = {}

\* the scan is at the table's last slot with that one descriptor left to
\* handle, after the UDP listener and an earlier slot were handled in the
\* same cycle
C24_Witness ==
    /\ pc \in {"scan", "scanw"}
    /\ i = MAX_TRX - 1
    /\ nfds = 1
    /\ udp_sock \in rset
    /\ \E s \in Slots : s < i /\ ev.slot = s
                              /\ ev.kind \in {"send", "recv_more", "emit"}

\* C25 (no descriptor aliasing): between the return of select() and the
\* end of the loop iteration the two sets do not change, a slot's dst_sock
\* changes only to a value that is in neither set (a release, or an
\* allocation whose new descriptor, the lowest number not open, was not
\* reported), and the scan handles a slot only on a descriptor that is in
\* the sets, is open and is the connection opened for that slot; so a slot
\* allocated in this cycle and a slot released earlier in the scan are not
\* read from or written to in the cycle.
C25_NoAliasing ==
    [][ (pc = "udp" \/ pc = "tcp" \/ pc = "scan" \/ pc = "scanw") =>
          /\ rset' = rset
          /\ wset' = wset
          /\ \A s \in Slots :
                trx'[s].dst_sock # trx[s].dst_sock =>
                   trx'[s].dst_sock \notin rset \cup wset
          /\ pc \in {"scan", "scanw"} =>
                /\ trx[i].dst_sock \in (rset \cup wset) \cap open
                /\ conn[trx[i].dst_sock].slot = i
                /\ \A s \in Slots \ {i} :
                      /\ trx'[s] = trx[s]
                      /\ trx[s].dst_sock > 0 =>
                            conn'[trx[s].dst_sock] = conn[trx[s].dst_sock]
      ]_vars

\* a datagram was just given a slot and a descriptor whose number is lower
\* than that of a connection still open, and the scan of the same cycle
\* goes on to handle that other slot
C25_Witness ==
    /\ ev.kind = "alloc"
    /\ pc \in {"scan", "scanw"}
    /\ i # ev.slot
    /\ trx[i].dst_sock > trx[ev.slot].dst_sock

\* the steps that release a slot, by what they report
ReleaseKinds ==
    { "sweep", "recv_err", "recv_again", "emit", "emit_fail", "so_error",
      "send_again", "send_err" }

\* C26 (no descriptor leak): the upstream connections that exist are open
\* descriptors and are exactly the dst_sock values of the slots in flight,
\* no two slots hold the same one; a slot leaves flight only in a sweep, a
\* completed or failed receive, a pending socket error or a failed send,
\* and that step closes its descriptor, which was open, and sets dst_sock
\* to 0; no other upstream descriptor is closed.
C26_NoDescriptorLeak ==
    [][ /\ { fd \in UpFds : conn[fd].st # "closed" }
              = { trx[s].dst_sock : s \in { r \in Slots : trx[r].dst_sock > 0 } }
        /\ \A fd \in UpFds : conn[fd].st # "closed" => fd \in open
        /\ \A s, r \in Slots :
              (s # r /\ trx[s].dst_sock > 0) =>
                 trx[s].dst_sock # trx[r].dst_sock
        /\ \A s \in Slots :
              (trx[s].dst_sock > 0 /\ trx'[s].dst_sock # trx[s].dst_sock) =>
                 /\ ev'.kind \in ReleaseKinds
                 /\ trx'[s].dst_sock = 0
                 /\ trx[s].dst_sock \in open \ open'
                 /\ conn'[trx[s].dst_sock].st = "closed"
        /\ open \ open' \subseteq
              { trx[s].dst_sock : s \in { r \in Slots : trx'[r].dst_sock = 0 } }
      ]_vars

\* the dispatcher waits after a sweep that closed a slot's connection,
\* with another connection still open for a slot in flight
C26_Witness ==
    /\ ev.kind = "sweep"
    /\ pc = "select"
    /\ \E s \in Slots : trx[s].dst_sock > 0 /\ trx[s].dst_sock \in open
    /\ \E s \in Slots : trx[s].dst_sock = 0 /\ trx[s].time < now - TIMEOUT

\* C27 (upstream end of stream): a RECEIVING slot whose connection the name
\* server has closed with nothing left to read gets 0 from recv(): the
\* step changes nothing in the slot (it stays RECEIVING with the same
\* data_len), relays nothing and leaves the descriptor open; a sweep that
\* does not find the slot stale puts the descriptor in the read set again;
\* and the slot's dst_sock changes only in a sweep that finds it stale.
C27_EndOfStream ==
    [][ \A s \in Slots :
           LET fd == trx[s].dst_sock
           IN (/\ fd > 0
               /\ trx[s].conn_state = CONN_STATE_RECV
               /\ conn[fd].st = "fin"
               /\ conn[fd].avail = conn[fd].nread) =>
                 /\ (pc = "scan" /\ i = s) =>
                       /\ trx'[s] = trx[s]
                       /\ fd \in open'
                       /\ conn'[fd] = conn[fd]
                       /\ ev'.kind = "recv_more"
                       /\ ev'.n = 0
                 /\ trx'[s].dst_sock # fd =>
                       /\ pc = "build"
                       /\ trx[s].time < now - TIMEOUT
                 /\ (pc = "build" /\ ~ (trx[s].time < now - TIMEOUT)) =>
                       fd \in rset'
      ]_vars

\* recv() has just returned 0 on a slot that holds part of a response and
\* whose connection the name server has closed
C27_Witness ==
    /\ ev.kind = "recv_more"
    /\ ev.n = 0
    /\ trx[ev.slot].dst_sock > 0
    /\ trx[ev.slot].conn_state = CONN_STATE_RECV
    /\ trx[ev.slot].data_len > 0
    /\ conn[trx[ev.slot].dst_sock].st = "fin"

\* C28 (the timeout runs from allocation): time is written only by the
\* step that allocates the slot, which sets it to the clock's value; no
\* later step changes it, not a partial or complete send, not a receive,
\* not the release; and a sweep frees every slot in flight with
\* time < now - TIMEOUT, whatever its state and whatever it has sent or
\* received.
C28_TimeFromAllocation ==
    [][ \A s \in Slots :
           /\ trx'[s].time # trx[s].time =>
                 /\ pc = "udp"
                 /\ ev'.kind = "alloc"
                 /\ ev'.slot = s
                 /\ trx[s].dst_sock <= 0
           /\ (trx[s].dst_sock <= 0 /\ trx'[s].dst_sock > 0) =>
                 trx'[s].time = now
           /\ (pc = "build" /\ trx[s].dst_sock > 0
                  /\ trx[s].time < now - TIMEOUT) =>
                 /\ trx'[s].dst_sock = 0
                 /\ trx'[s].conn_state = trx[s].conn_state
                 /\ trx'[s].data_len = trx[s].data_len
      ]_vars

\* a sweep has just closed a slot that was RECEIVING and holds bytes of a
\* response
C28_Witness ==
    /\ ev.kind = "sweep"
    /\ trx[ev.slot].dst_sock = 0
    /\ trx[ev.slot].conn_state = CONN_STATE_RECV
    /\ trx[ev.slot].data_len > 0
    /\ trx[ev.slot].time < now - TIMEOUT

\* C29 as stated: in every reachable state every slot has
\* 0 <= data_len <= FRAMESIZE + 2.
C29_AsStated ==
    \A s \in Slots : /\ 0 <= trx[s].data_len
                     /\ trx[s].data_len <= FRAMESIZE + 2

\* C29 (buffer bounds): as long as the dispatcher has not returned, every
\* slot has 0 <= data_len <= FRAMESIZE + 2, and data_len never exceeds
\* FRAMESIZE + 2 at all; the buffer keeps its size; a recv() on an upstream
\* descriptor leaves the first data_len bytes of the slot as they were and
\* adds what it read to data_len; and the read of a datagram leaves the
\* first two bytes to the length header, which is all that is written
\* there: this also when the name server sends more bytes than its prefix
\* announces or than the buffer holds.
C29_BufferBounds ==
    [][ /\ \A s \in Slots :
              /\ 0 <= trx[s].data_len
              /\ trx[s].data_len <= FRAMESIZE + 2
              /\ trx'[s].data_len <= FRAMESIZE + 2
              /\ pc' # "stopped" => 0 <= trx'[s].data_len
              /\ DOMAIN trx'[s].data = 1 .. (FRAMESIZE + 2)
        /\ pc = "scan" =>
              /\ \A j \in 1 .. trx[i].data_len :
                    trx'[i].data[j] = trx[i].data[j]
              /\ ev'.kind = "recv_more" =>
                    /\ trx'[i].data_len = trx[i].data_len + ev'.n
                    /\ ev'.n <= FRAMESIZE + 2 - trx[i].data_len
        /\ (pc = "udp" /\ ev'.kind \in {"short", "connect_fail"}) =>
              /\ trx'[ev'.slot].data[1] = trx[ev'.slot].data[1]
              /\ trx'[ev'.slot].data[2] = trx[ev'.slot].data[2]
        /\ (pc = "udp" /\ ev'.kind = "alloc") =>
              /\ trx'[ev'.slot].data_len - 2 <= FRAMESIZE
              /\ trx'[ev'.slot].data[1] * 256 + trx'[ev'.slot].data[2]
                    = trx'[ev'.slot].data_len - 2
      ]_vars

\* a slot's buffer is full, the name server's stream has more bytes to
\* give, and recv() has just been called with no room and returned 0
C29_Witness ==
    /\ ev.kind = "recv_more"
    /\ ev.n = 0
    /\ trx[ev.slot].dst_sock > 0
    /\ trx[ev.slot].data_len = FRAMESIZE + 2
    /\ conn[trx[ev.slot].dst_sock].avail > conn[trx[ev.slot].dst_sock].nread

====
